---- MODULE Spec2Model ----
(***************************************************************************)
(* Model of main.py of the URL scam detection API: the domain resolver     *)
(* (extract_base_domain), the trust registry (is_trusted_domain), the      *)
(* threshold classifier (classify_proba) and the /predict handler          *)
(* (predict_url) with its audit log.                                       *)
(*                                                                         *)
(* Strings are TLC strings; a character is a string of length one.         *)
(* Probabilities and thresholds are Python floats in [0,1]; they are       *)
(* modelled in hundredths (0.01 is 1, 0.3 is 30, 1.0 is 100), which keeps  *)
(* the order the comparisons of classify_proba depend on.                  *)
(***************************************************************************)
EXTENDS Integers, Sequences, FiniteSets, TLC

VARIABLES
    T_SAFE,           \* main.py:23  float(thresholds_cfg["safe"])
    T_MAL,            \* main.py:24  float(thresholds_cfg["malicious"])
    TRUSTED_DOMAINS,  \* main.py:52  the configured trusted entries
    pc,               \* per request: where its predict_url coroutine stands
    data,             \* per request: the URLInput body and the client address
    frame,            \* per request: the locals of predict_url once it has started
    scorer,           \* per request: what became of its model_predict call
    response,         \* per request: what the caller received
    logfile,          \* realtime_logs.jsonl, one entry per logger.info call
    clock,            \* the value datetime.utcnow() returns next
    call              \* the last direct call of a helper function and its result

vars == <<T_SAFE, T_MAL, TRUSTED_DOMAINS, pc, data, frame, scorer, response,
          logfile, clock, call>>

engineVars == <<pc, data, frame, scorer, response, logfile, clock>>
configVars == <<T_SAFE, T_MAL, TRUSTED_DOMAINS>>

-----------------------------------------------------------------------------
(* Bounds *)

\* the number of requests one behaviour submits
MaxRequests == 2

\* the largest number of "www." labels put in front of a generated host
MaxWww == 2

-----------------------------------------------------------------------------
(* str methods used by main.py *)

Lowercase == "abcdefghijklmnopqrstuvwxyz"
Uppercase == "ABCDEFGHIJKLMNOPQRSTUVWXYZ"
Digits == "0123456789"

CharAt(s, i) == SubSeq(s, i, i)

CharsOf(s) == {CharAt(s, i) : i \in 1..Len(s)}

\* str.startswith
startswith(s, prefix) ==
    /\ Len(prefix) <= Len(s)
    /\ SubSeq(s, 1, Len(prefix)) = prefix

\* str.endswith
endswith(s, suffix) ==
    /\ Len(suffix) <= Len(s)
    /\ SubSeq(s, Len(s) - Len(suffix) + 1, Len(s)) = suffix

\* str.lower of one character (ASCII)
LowerChar(c) ==
    IF c \in {"A", "B", "C", "D", "E", "F", "G", "H", "I", "J", "K", "L", "M",
              "N", "O", "P", "Q", "R", "S", "T", "U", "V", "W", "X", "Y", "Z"}
    THEN CharAt(Lowercase, CHOOSE i \in 1..26 : CharAt(Uppercase, i) = c)
    ELSE c

\* str.lower
RECURSIVE lower(_)
lower(s) ==
    IF s = "" THEN ""
    ELSE LowerChar(CharAt(s, 1)) \o lower(SubSeq(s, 2, Len(s)))

\* str.find(c, start), 1-based; 0 when c does not occur (Python: -1)
find(s, c, start) ==
    LET hits == {i \in start..Len(s) : CharAt(s, i) = c}
    IN  IF hits = {} THEN 0 ELSE CHOOSE i \in hits : \A j \in hits : i <= j

\* str.lstrip() / str.rstrip() / str.strip() for the blank character
RECURSIVE lstrip(_)
lstrip(s) ==
    IF s # "" /\ CharAt(s, 1) = " " THEN lstrip(SubSeq(s, 2, Len(s))) ELSE s

RECURSIVE rstrip(_)
rstrip(s) ==
    IF s # "" /\ CharAt(s, Len(s)) = " " THEN rstrip(SubSeq(s, 1, Len(s) - 1)) ELSE s

strip(s) == rstrip(lstrip(s))

-----------------------------------------------------------------------------
(* urllib.parse.urlparse, as far as extract_base_domain uses it: the netloc *)
(* component, and the ValueError of an unbalanced bracket in it.  Inputs    *)
(* hold no tab, CR or LF, no non-ASCII character and never both brackets.   *)

scheme_chars == CharsOf(Lowercase) \cup CharsOf(Uppercase) \cup CharsOf(Digits)
                \cup {"+", "-", "."}

isalpha(c) == c \in CharsOf(Lowercase) \cup CharsOf(Uppercase)

\* urlsplit: what is left of the url once a leading "scheme:" is taken off
AfterScheme(url0) ==
    LET url == lstrip(url0)
        i == find(url, ":", 1)
    IN  IF /\ i > 1
           /\ isalpha(CharAt(url, 1))
           /\ \A k \in 1..(i - 1) : CharAt(url, k) \in scheme_chars
        THEN SubSeq(url, i + 1, Len(url))
        ELSE url

\* _splitnetloc(url, 2): up to the earliest of "/", "?", "#"
splitnetloc(url) ==
    LET ends == {find(url, c, 3) : c \in {"/", "?", "#"}} \ {0}
        delim == IF ends = {} THEN Len(url) + 1
                 ELSE CHOOSE i \in ends : \A j \in ends : i <= j
    IN  SubSeq(url, 3, delim - 1)

\* parsed.netloc
netloc(url) ==
    LET rest == AfterScheme(url)
    IN  IF startswith(rest, "//") THEN splitnetloc(rest) ELSE ""

\* urlparse raises ValueError("Invalid IPv6 URL")
urlparse_raises(url) ==
    LET n == netloc(url)
    IN  ("[" \in CharsOf(n)) # ("]" \in CharsOf(n))

-----------------------------------------------------------------------------
(* DomainResolver *)

extract_base_domain(url) ==
    IF urlparse_raises(url)
    THEN lower(url)
    ELSE LET d == lower(netloc(url))
         IN  IF startswith(d, "www.") THEN SubSeq(d, 5, Len(d)) ELSE d

-----------------------------------------------------------------------------
(* TrustRegistry *)

\* the set literal of main.py
SourceTrustedDomains ==
    { "google.com", "https://translate.google.com/", "youtube.com",
      "facebook.com", "twitter.com", "instagram.com", "linkedin.com",
      "microsoft.com", "apple.com", "amazon.com", "netflix.com", "github.com",
      "paypal.com", "wikipedia.org", "whatsapp.com", "imamu.edu.sa", "edu.sa",
      "gov.sa", "moe.gov.sa", "kfupm.edu.sa", "kaust.edu.sa" }

\* The registries the model is run with: the literal of the source, the
\* literal with two entries written as suffix patterns, and a short registry
\* whose suffix pattern has no exact twin.
RegistryConfigs ==
    { SourceTrustedDomains,
      SourceTrustedDomains \cup {".edu.sa", ".gov.sa"},
      {"google.com", ".edu.sa"} }

\* the loop without the test that the entry is a suffix pattern
RECURSIVE SuffixLoop_anyentry(_, _)
SuffixLoop_anyentry(d, rest) ==
    IF rest = {} THEN FALSE
    ELSE LET t == CHOOSE e \in rest : TRUE
         IN  IF endswith(d, t) THEN TRUE
             ELSE SuffixLoop_anyentry(d, rest \ {t})

\* the for loop of is_trusted_domain over the entries not yet visited
RECURSIVE SuffixLoop(_, _)
SuffixLoop(d, rest) ==
    IF rest = {} THEN FALSE
    ELSE LET t == CHOOSE e \in rest : TRUE
         IN  IF startswith(t, ".") /\ endswith(d, t) THEN TRUE
             ELSE SuffixLoop(d, rest \ {t})

\* the registry without its loop over the suffix patterns
is_trusted_domain_exact(url) == extract_base_domain(url) \in TRUSTED_DOMAINS

is_trusted_domain(url) ==
    LET d == extract_base_domain(url)
    IN  IF d \in TRUSTED_DOMAINS THEN TRUE
        ELSE SuffixLoop(d, TRUSTED_DOMAINS)

-----------------------------------------------------------------------------
(* ThresholdClassifier *)

Labels == {"benign", "suspicious", "malicious"}

\* the classifier with a strict first comparison
classify_proba_strict(p) ==
    IF p > T_MAL THEN "malicious"
    ELSE IF p <= T_SAFE THEN "benign"
    ELSE "suspicious"

classify_proba(p) ==
    IF p >= T_MAL THEN "malicious"
    ELSE IF p <= T_SAFE THEN "benign"
    ELSE "suspicious"

-----------------------------------------------------------------------------
(* DecisionEngine: the /predict handler *)

Requests == 1..MaxRequests

MODEL_VERSION == "v2.0"

\* probability_malicious of a whitelisted URL: 0.01
WhitelistProba == 1

\* request.client is None
NoClient == "None"

NoData == [url |-> "", client |-> NoClient]

NoFrame == [url |-> "", domain |-> "", client_host |-> NoClient, now |-> 0,
            trusted |-> FALSE]

NoResponse == [status |-> 0]

\* an exception leaving predict_url: the server answers 500, without a body
InternalServerError == [status |-> 500]

\* the response dict of predict_url
ResponseBody(f, lbl, p, source) ==
    [ url |-> f.url,
      domain |-> f.domain,
      trusted_domain |-> f.trusted,
      prediction |-> lbl,
      probability_malicious |-> p,
      thresholds |-> [safe |-> T_SAFE, malicious |-> T_MAL],
      model_version |-> MODEL_VERSION,
      source |-> source,
      timestamp |-> f.now ]

\* a log entry stamped when it is written, not with the captured now
LogEntry_newstamp(f, lbl, p, source) ==
    [ timestamp |-> f.now + 1,
      client_ip |-> f.client_host,
      url |-> f.url,
      domain |-> f.domain,
      prediction |-> lbl,
      probability_malicious |-> p,
      trusted_domain |-> f.trusted,
      thresholds |-> [safe |-> T_SAFE, malicious |-> T_MAL],
      model_version |-> MODEL_VERSION,
      source |-> source ]

\* the log_entry dict of predict_url
LogEntry(f, lbl, p, source) ==
    [ timestamp |-> f.now,
      client_ip |-> f.client_host,
      url |-> f.url,
      domain |-> f.domain,
      prediction |-> lbl,
      probability_malicious |-> p,
      trusted_domain |-> f.trusted,
      thresholds |-> [safe |-> T_SAFE, malicious |-> T_MAL],
      model_version |-> MODEL_VERSION,
      source |-> source ]

\* model_predict classifying column 0 of predict_proba, the benign probability
model_predict_column0(url, p) == <<classify_proba(100 - p), p>>

\* model_predict(url) when the vectorizer and the model yield probability p
model_predict(url, p) == <<classify_proba(p), p>>

\* a whitelist branch that classifies its probability like the model branch
WhitelistDecision_classified ==
    [label |-> classify_proba(WhitelistProba), proba |-> WhitelistProba,
     source |-> "whitelist"]

\* the whitelist branch of predict_url
WhitelistDecision ==
    [label |-> "benign", proba |-> WhitelistProba, source |-> "whitelist"]

\* predict_url is a coroutine without an await: from its first line to its
\* return or its exception it holds the one thread of the event loop, the
\* call of model_predict included.
LoopIdle == \A q \in Requests : pc[q] # "scoring"

CanStart(r) == pc[r] = "pending" /\ LoopIdle

\* lines 150-177: assemble the response, log the entry, return
Return(r, f, lbl, p, source) ==
    /\ response' = [response EXCEPT
                       ![r] = [status |-> 200, body |-> ResponseBody(f, lbl, p, source)]]
    /\ logfile' = Append(logfile, LogEntry(f, lbl, p, source))
    /\ pc' = [pc EXCEPT ![r] = "done"]

\* a client posts {"url": u} to /predict
Submit(r, u, c) ==
    /\ pc[r] = "idle"
    /\ \A q \in Requests : q < r => pc[q] # "idle"
    /\ pc' = [pc EXCEPT ![r] = "pending"]
    /\ data' = [data EXCEPT ![r] = [url |-> u, client |-> c]]
    /\ UNCHANGED <<configVars, frame, scorer, response, logfile, clock, call>>

\* predict_url from its first line to the return of the whitelist branch, or
\* to the call of model_predict
predict_url(r) ==
    /\ CanStart(r)
    /\ LET url == strip(data[r].url)
           f == [ url |-> url,
                  domain |-> extract_base_domain(url),
                  client_host |-> data[r].client,
                  now |-> clock,
                  trusted |-> is_trusted_domain(url) ]
       IN  /\ frame' = [frame EXCEPT ![r] = f]
           /\ clock' = clock + 1
           /\ IF f.trusted
              THEN /\ Return(r, f, WhitelistDecision.label, WhitelistDecision.proba,
                             WhitelistDecision.source)
                   /\ UNCHANGED scorer
              ELSE /\ pc' = [pc EXCEPT ![r] = "scoring"]
                   /\ scorer' = [scorer EXCEPT ![r] = "running"]
                   /\ UNCHANGED <<response, logfile>>
    /\ UNCHANGED <<configVars, data, call>>

\* model_predict returns, and predict_url runs on to its return
model_predict_returns(r, p) ==
    /\ pc[r] = "scoring"
    /\ scorer' = [scorer EXCEPT ![r] = "returned"]
    /\ LET res == model_predict(frame[r].url, p)
       IN  Return(r, frame[r], res[1], res[2], "model")
    /\ UNCHANGED <<configVars, data, frame, clock, call>>

\* a handler that catches the scorer's exception and answers with a default
model_predict_raises_default(r) ==
    /\ pc[r] = "scoring"
    /\ scorer' = [scorer EXCEPT ![r] = "raised"]
    /\ Return(r, frame[r], "benign", 0, "model")
    /\ UNCHANGED <<configVars, data, frame, clock, call>>

\* vectorizer.transform or model.predict_proba raises: nothing in model_predict
\* or predict_url catches it
model_predict_raises(r) ==
    /\ pc[r] = "scoring"
    /\ scorer' = [scorer EXCEPT ![r] = "raised"]
    /\ pc' = [pc EXCEPT ![r] = "failed"]
    /\ response' = [response EXCEPT ![r] = InternalServerError]
    /\ UNCHANGED <<configVars, data, frame, logfile, clock, call>>

-----------------------------------------------------------------------------
(* Inputs *)

\* (safe, malicious) pairs: the pair of the examples, a collapsed middle band,
\* and a safe threshold below the whitelist probability
ThresholdPairs == {<<30, 70>>, <<30, 30>>, <<0, 70>>}

ScorerProbas == {0, 1, 50, 92}

Clients == {"203.0.113.7", NoClient}

EngineUrls ==
    { " https://www.Google.com/x ", "https://mail.kfupm.edu.sa/" }

NoCall == [fn |-> "none"]

InitEngine ==
    /\ pc = [r \in Requests |-> "idle"]
    /\ data = [r \in Requests |-> NoData]
    /\ frame = [r \in Requests |-> NoFrame]
    /\ scorer = [r \in Requests |-> "not_called"]
    /\ response = [r \in Requests |-> NoResponse]
    /\ logfile = <<>>
    /\ clock = 1
    /\ call = NoCall

EngineRegistries == {SourceTrustedDomains, SourceTrustedDomains \cup {".edu.sa", ".gov.sa"}}

Init ==
    /\ \E t \in ThresholdPairs : T_SAFE = t[1] /\ T_MAL = t[2]
    /\ TRUSTED_DOMAINS \in EngineRegistries
    /\ InitEngine

Next ==
    \/ \E r \in Requests, u \in EngineUrls, c \in Clients : Submit(r, u, c)
    \/ \E r \in Requests : predict_url(r)
    \/ \E r \in Requests, p \in ScorerProbas : model_predict_returns(r, p)
    \/ \E r \in Requests : model_predict_raises(r)

Spec == Init /\ [][Next]_vars

-----------------------------------------------------------------------------
(* Direct calls of the resolver and the registry *)

RECURSIVE Www(_)
Www(k) == IF k = 0 THEN "" ELSE "www." \o Www(k - 1)

Schemes == {"", "//", "https://", "HTTP://"}

Hosts == { "google.com", "Google.COM", "evil-google.com", "mail.kfupm.edu.sa",
           "edu.sa", "gov.sa", "example.com:8080", "hello" }

Tails == {"", "/x"}

Malformed == {"", "http://[bad", "http://a]/", "www.a://[x", "ht!tp://edu.sa"}

ResolveInputs ==
    {s \o Www(k) \o h \o t : s \in Schemes, k \in 0..MaxWww, h \in Hosts, t \in Tails}
    \cup Malformed

Resolve(u) ==
    /\ call = NoCall
    /\ call' = [ fn |-> "resolve", arg |-> u,
                 domain |-> extract_base_domain(u),
                 trusted |-> is_trusted_domain(u) ]
    /\ UNCHANGED <<configVars, engineVars>>

InitResolve ==
    /\ T_SAFE = 30
    /\ T_MAL = 70
    /\ TRUSTED_DOMAINS \in RegistryConfigs
    /\ InitEngine

NextResolve == \E u \in ResolveInputs : Resolve(u)

SpecResolve == InitResolve /\ [][NextResolve]_vars

-----------------------------------------------------------------------------
(* Direct calls of the classifier *)

ClassifyGrid == {0, 1, 2, 29, 30, 31, 50, 69, 70, 71, 92, 99, 100}

Classify(p) ==
    /\ call = NoCall
    /\ call' = [fn |-> "classify", proba |-> p, label |-> classify_proba(p)]
    /\ UNCHANGED <<configVars, engineVars>>

InitClassify ==
    /\ T_SAFE \in ClassifyGrid
    /\ T_MAL \in ClassifyGrid
    /\ TRUSTED_DOMAINS = SourceTrustedDomains
    /\ InitEngine

NextClassify == \E p \in ClassifyGrid : Classify(p)

SpecClassify == InitClassify /\ [][NextClassify]_vars

-----------------------------------------------------------------------------
(* Properties *)

Answered == {r \in Requests : response[r].status = 200}

Started(r) == pc[r] \in {"scoring", "done", "failed"}

\* C1: a request whose resolved domain is trusted is answered 'benign' with
\* probability 0.01 and source 'whitelist', and model_predict is never called
\* for it.
C1_TrustOverride ==
    \A r \in Requests :
        (Started(r) /\ is_trusted_domain(strip(data[r].url))) =>
            /\ pc[r] = "done"
            /\ scorer[r] = "not_called"
            /\ response[r].status = 200
            /\ response[r].body.trusted_domain
            /\ response[r].body.prediction = "benign"
            /\ response[r].body.probability_malicious = 1
            /\ response[r].body.source = "whitelist"

C1_Witness ==
    \E r \in Requests :
        /\ pc[r] = "done"
        /\ frame[r].trusted
        /\ response[r].body.source = "whitelist"
        /\ scorer[r] = "not_called"

\* C3: a raising scorer ends the request as a failure without a label, and
\* every answered request carries one of the three labels.
C3_ScorerFailureIsNoLabel ==
    \A r \in Requests :
        /\ scorer[r] = "raised" =>
               /\ pc[r] = "failed"
               /\ response[r].status = 500
               /\ DOMAIN response[r] = {"status"}
        /\ pc[r] = "failed" => scorer[r] = "raised"
        /\ response[r].status = 200 => response[r].body.prediction \in Labels
        /\ pc[r] = "done" <=> response[r].status = 200

C3_Witness ==
    \E r, q \in Requests :
        /\ scorer[r] = "raised"
        /\ response[r].status = 500
        /\ ~frame[r].trusted
        /\ response[q].status = 200

\* the fields the response and the log entry have in common
SameData(e, b) ==
    /\ e.timestamp = b.timestamp
    /\ e.url = b.url
    /\ e.domain = b.domain
    /\ e.prediction = b.prediction
    /\ e.probability_malicious = b.probability_malicious
    /\ e.trusted_domain = b.trusted_domain
    /\ e.thresholds = b.thresholds
    /\ e.model_version = b.model_version
    /\ e.source = b.source

\* C8: the log holds exactly one entry per answered request, none for any
\* other, and each entry carries the data of its response.
C8_OneAuditRecordPerDecision ==
    /\ Len(logfile) = Cardinality(Answered)
    /\ \E f \in [Answered -> 1..Len(logfile)] :
           /\ \A r, q \in Answered : f[r] = f[q] => r = q
           /\ \A r \in Answered : SameData(logfile[f[r]], response[r].body)

C8_Witness ==
    /\ Len(logfile) >= 1
    /\ \E r \in Requests : pc[r] = "failed"
    /\ \E r \in Answered : response[r].body.source = "model"

\* C9: while one request is inside the scorer call, any other submitted
\* request can start.
C9_ScoringDoesNotStall ==
    \A r, q \in Requests :
        (pc[r] = "scoring" /\ pc[q] = "pending") => CanStart(q)

\* the classifier of the specification, on the thresholds of a record
classify(p, t) ==
    IF p >= t.malicious THEN "malicious"
    ELSE IF p <= t.safe THEN "benign"
    ELSE "suspicious"

\* C10 as stated: on both paths the record's label is classify(probability,
\* thresholds), so equal probability and thresholds give equal labels.
C10_Original ==
    /\ \A r \in Answered :
           response[r].body.prediction =
               classify(response[r].body.probability_malicious, response[r].body.thresholds)
    /\ \A r, q \in Answered :
           (/\ response[r].body.probability_malicious = response[q].body.probability_malicious
            /\ response[r].body.thresholds = response[q].body.thresholds)
           => response[r].body.prediction = response[q].body.prediction

\* C10: on the model path the record's label is classify(probability,
\* thresholds); a whitelist record is 'benign' with probability 0.01 whatever
\* the thresholds, which is classify's label exactly when 0.01 <= safe and
\* 0.01 < malicious.
C10_LabelFollowsProbabilityOnModelPath ==
    \A r \in Answered :
        LET b == response[r].body
        IN  /\ b.source \in {"model", "whitelist"}
            /\ b.source = "model" =>
                   b.prediction = classify(b.probability_malicious, b.thresholds)
            /\ b.source = "whitelist" =>
                   /\ b.prediction = "benign"
                   /\ b.probability_malicious = 1
                   /\ (classify(1, b.thresholds) = "benign")
                          <=> (1 <= b.thresholds.safe /\ 1 < b.thresholds.malicious)

C10_Witness ==
    \E r, q \in Answered :
        /\ response[r].body.source = "whitelist"
        /\ response[r].body.thresholds.safe = 0
        /\ response[q].body.source = "model"
        /\ response[q].body.probability_malicious = 1
        /\ response[q].body.prediction = "suspicious"

\* C2 as stated: one label, first match wins; p equal to the safe threshold
\* is benign, p equal to the malicious threshold is malicious, and with equal
\* thresholds nothing is suspicious.
C2_Original ==
    (call.fn = "classify" /\ T_SAFE <= T_MAL) =>
        /\ call.label \in Labels
        /\ call.label = classify(call.proba, [safe |-> T_SAFE, malicious |-> T_MAL])
        /\ call.proba = T_SAFE => call.label = "benign"
        /\ call.proba = T_MAL => call.label = "malicious"
        /\ T_SAFE = T_MAL => call.label # "suspicious"

\* C2: one label, first match wins: malicious exactly from the malicious
\* threshold up, benign exactly below it and up to the safe threshold,
\* suspicious exactly strictly between the two; p equal to the malicious
\* threshold is malicious, p equal to the safe threshold is benign when
\* safe < malicious (and malicious when the two are equal), and with equal
\* thresholds nothing is suspicious.
C2_FirstMatchWins ==
    (call.fn = "classify" /\ T_SAFE <= T_MAL) =>
        /\ call.label \in Labels
        /\ call.label = "malicious" <=> call.proba >= T_MAL
        /\ call.label = "benign" <=> (call.proba < T_MAL /\ call.proba <= T_SAFE)
        /\ call.label = "suspicious" <=> (T_SAFE < call.proba /\ call.proba < T_MAL)
        /\ call.proba = T_MAL => call.label = "malicious"
        /\ (call.proba = T_SAFE /\ T_SAFE < T_MAL) => call.label = "benign"
        /\ (call.proba = T_SAFE /\ T_SAFE = T_MAL) => call.label = "malicious"
        /\ T_SAFE = T_MAL => call.label # "suspicious"

C2_Witness ==
    /\ call.fn = "classify"
    /\ T_SAFE = T_MAL
    /\ call.proba = T_SAFE
    /\ call.label = "malicious"

\* d ends with t, said without str.endswith
HasSuffix(d, t) == \E k \in 0..Len(d) : SubSeq(d, k + 1, Len(d)) = t

IsSuffixEntry(t) == Len(t) >= 1 /\ SubSeq(t, 1, 1) = "."

\* C4: a domain is trusted exactly when it is an entry of the registry or
\* ends with an entry that begins with '.'; 'google.com' is trusted by its
\* entry, 'mail.kfupm.edu.sa' by a suffix entry '.edu.sa', 'evil-google.com'
\* is not trusted.
C4_TwoStepMatch ==
    call.fn = "resolve" =>
        /\ call.trusted <=>
               \/ call.domain \in TRUSTED_DOMAINS
               \/ \E t \in TRUSTED_DOMAINS : IsSuffixEntry(t) /\ HasSuffix(call.domain, t)
        /\ (call.domain = "google.com" /\ "google.com" \in TRUSTED_DOMAINS) => call.trusted
        /\ (call.domain = "mail.kfupm.edu.sa" /\ ".edu.sa" \in TRUSTED_DOMAINS) => call.trusted
        /\ call.domain = "evil-google.com" => ~call.trusted

C4_Witness ==
    /\ call.fn = "resolve"
    /\ call.arg = "https://mail.kfupm.edu.sa/x"
    /\ call.domain = "mail.kfupm.edu.sa"
    /\ call.domain \notin TRUSTED_DOMAINS
    /\ "edu.sa" \in TRUSTED_DOMAINS
    /\ call.trusted

\* C5 as stated: an entry '.X' makes X itself and every domain ending in '.X'
\* trusted.
C5_Original ==
    call.fn = "resolve" =>
        \A t \in TRUSTED_DOMAINS :
            (/\ IsSuffixEntry(t)
             /\ call.domain = SubSeq(t, 2, Len(t)) \/ HasSuffix(call.domain, t))
            => call.trusted

\* C5: an entry '.X' makes every domain ending in '.X' trusted; X itself is
\* trusted only when it is an entry of its own or ends with a suffix entry.
C5_SuffixCoversSubdomains ==
    call.fn = "resolve" =>
        \A t \in TRUSTED_DOMAINS :
            IsSuffixEntry(t) =>
                /\ HasSuffix(call.domain, t) => call.trusted
                /\ (call.domain = SubSeq(t, 2, Len(t)) /\ call.trusted) =>
                       \/ call.domain \in TRUSTED_DOMAINS
                       \/ \E t2 \in TRUSTED_DOMAINS :
                              IsSuffixEntry(t2) /\ HasSuffix(call.domain, t2)

C5_Witness ==
    /\ call.fn = "resolve"
    /\ TRUSTED_DOMAINS = {"google.com", ".edu.sa"}
    /\ call.domain = "mail.kfupm.edu.sa"
    /\ call.trusted

\* no host can be parsed from u
NoHost(u) == urlparse_raises(u) \/ netloc(u) = ""

\* C6: an input from which no host can be parsed resolves to the lower-cased
\* input itself.
C6_FallsBackToInput ==
    (call.fn = "resolve" /\ NoHost(call.arg)) => call.domain = lower(call.arg)

\* C7: a resolved domain is lower-case and does not begin with 'www.'.
C7_DomainInvariant ==
    call.fn = "resolve" =>
        /\ call.domain = lower(call.domain)
        /\ ~(Len(call.domain) >= 4 /\ SubSeq(call.domain, 1, 4) = "www.")

====
